---- MODULE Spec2Model ----
(***************************************************************************)
(* The bulk e-mail dispatch engine of email-backend, in its variants:      *)
(*   "seq"      unnamed/part_002  sequential, one attempt per message      *)
(*   "seqRetry" unnamed/part_001  sequential, rate limited, with retries   *)
(*   "batch"    ok-slow.js        batched, rate limited, with retries      *)
(*   "par"      speed.js          fully parallel, one attempt per message  *)
(*   "parLogs"  unnamed/part_000  the same, with a log line per message    *)
(*   "delay"    index.js          sequential, a fixed delay before each send *)
(* One request handler runs over the process-wide account pool, usage      *)
(* counters and rotation cursor.                                           *)
(***************************************************************************)
EXTENDS Integers, Sequences, FiniteSets, TLC

\* ---------------------------------------------------------------- bounds
MaxEmails == 3      \* longest recipient list of a concurrent-send request
MaxSeqEmails == 5   \* longest recipient list of a request sent one by one
MaxPool == 3        \* largest account pool of a request
MaxCap == 2         \* largest per-account cap (490 in the code)
MaxRetries == 4     \* largest retry budget passed to sendWithRetry
BATCH_SIZE == 2     \* messages per batch (50 in the code)
maxConcurrent == 2  \* limiter ceiling (10 and 25 in the code)
reservoirRefreshAmount == 2   \* sends the limiter starts per window (500 in the code)
MaxJobs == 2        \* requests served one after another by one process
MaxOverlapEmails == 2    \* recipients of each of two overlapping requests
MaxOverlapRetries == 2   \* retry budget tried with overlapping requests

Variants == {"seq", "seqRetry", "batch", "par", "parLogs", "delay"}
Errors == {"ECONN", "ETIMEOUT"}     \* error.message of a rejected sendMail
NoError == "-"
NoUser == ""

RECURSIVE Pow2(_)
Pow2(n) == IF n <= 0 THEN 1 ELSE 2 * Pow2(n - 1)

\* the accounts and recipients a request can name
Users == <<"u1@x", "u2@x", "u3@x", "u4@x", "u5@x", "u6@x">>
Pool(n) == SubSeq(Users, 1, n)
Recipient(j) == IF j % 2 = 1 THEN "a@x" ELSE "b@x"
EmailList(n) == [j \in 1..n |-> Recipient(j)]

\* The passes of one getNextTransporter call are counted exactly up to
\* MaxExamined; a call that runs on is counted round again from just above
\* the pool size n, so the count of a call past its first cycle stays above n.
MaxExamined == MaxPool + 2
CountPass(e, n) == IF e < MaxExamined THEN e + 1 ELSE n + 1

VARIABLES
  variant,           \* which server file is running
  cap,               \* the per-account cap getNextTransporter tests against
  retries,           \* the retry budget sendWithRetry is given
  smtpCredentials,   \* let smtpCredentials = []
  smtpUsageCount,    \* let smtpUsageCount = {}
  currentSmtpIndex,  \* let currentSmtpIndex = 0
  emails,            \* the request's recipient list
  pc,                \* where the request handler stands
  cur,               \* position of the for-of loop over emails (1-based)
  smtp,              \* the account the current iteration selected
  examined,          \* accounts tested by the running getNextTransporter call
  msgs,              \* per message: its send in progress and its result
  successCount,      \* let successCount = 0
  failedEmails,      \* let failedEmails = []
  logs,              \* let logs = []
  reservoir,         \* sends the limiter may still start in this window
  inFlight,          \* sends the limiter has started and not seen settle
  req,               \* what the request in hand carried
  created,           \* per account: transporters created for this request
  jobsLeft,          \* requests the process is still to receive
  other,             \* the locals of a second handler, suspended at an await
  res                \* the HTTP response, once sent

vars == <<variant, cap, retries, smtpCredentials, smtpUsageCount,
          currentSmtpIndex, emails, pc, cur, smtp, examined, msgs,
          successCount, failedEmails, logs, reservoir, inFlight, req,
          created, jobsLeft, other, res>>

config == <<variant, cap, retries>>

\* ------------------------------------------------------------ pure parts

\* currentSmtpIndex = (currentSmtpIndex + 1) % smtpCredentials.length
NextIndexStuck(idx, n) == idx % n
NextIndexSkip(idx, n) == (idx + 2) % n
NextIndex(idx, n) == (idx + 1) % n

\* the counter value that stands for NaN
NaN == -1

\* if (smtpUsageCount[smtp.user] < 490): NaN < 490 is false
EligibleBelowOrAt(usage, c) == usage <= c
Eligible(usage, c) == usage # NaN /\ usage < c

\* setTimeout delay after failed attempt i (zero-based)
BackoffNoGrowth(v, i) == IF v = "seqRetry" THEN 1000 ELSE 200
Backoff(v, i) == IF v = "seqRetry" THEN 1000 * (i + 1) ELSE 200 * Pow2(i)

\* if (i === retries - 1)
LastAttemptOffByOne(i, r) == i = r
LastAttempt(i, r) == i = r - 1

NoResult == [ret |-> "pending", success |-> FALSE, email |-> "", error |-> NoError]
Undefined == [ret |-> "undefined", success |-> FALSE, email |-> "", error |-> NoError]
\* return { success: true, email }
SuccessResult(email) ==
  [ret |-> "value", success |-> TRUE, email |-> email, error |-> NoError]
\* return { success: false, email, error: error.message }
FailureResultNoMessage(email, error) ==
  [ret |-> "value", success |-> FALSE, email |-> email, error |-> NoError]
FailureResult(email, error) ==
  [ret |-> "value", success |-> FALSE, email |-> email, error |-> error]

NewMsg(email) ==
  [st |-> "new", email |-> email, smtp |-> NoUser, i |-> 0, attempts |-> 0,
   fails |-> 0, thrown |-> NoError, waits |-> <<>>, result |-> NoResult]

\* One pass of the for loop of sendWithRetry: the sendMail call settles with
\* outcome ("ok" or an error message); m is the message's send state.
SendWithRetryStep(v, m, outcome, r) ==
  IF outcome = "ok"
  THEN [m EXCEPT !.st = "done", !.attempts = @ + 1, !.thrown = NoError,
                 !.result = SuccessResult(m.email)]
  ELSE IF LastAttempt(m.i, r)
  THEN [m EXCEPT !.st = "done", !.attempts = @ + 1, !.fails = @ + 1,
                 !.thrown = outcome,
                 !.result = FailureResult(m.email, outcome)]
  ELSE IF m.i + 1 < r
  THEN [m EXCEPT !.attempts = @ + 1, !.fails = @ + 1, !.thrown = outcome,
                 !.i = @ + 1, !.waits = Append(@, Backoff(v, m.i))]
  ELSE [m EXCEPT !.st = "done", !.attempts = @ + 1, !.fails = @ + 1,
                 !.thrown = outcome, !.i = @ + 1,
                 !.waits = Append(@, Backoff(v, m.i)),
                 !.result = Undefined]

\* log lines, as the pieces the template strings are built from
SentLog(email, user) == [ok |-> TRUE, email |-> email, user |-> user, error |-> NoError]
FailedLog(email, error) == [ok |-> FALSE, email |-> email, user |-> NoUser, error |-> error]

\* res.status(200).json({...})
Completed(total, sent, failed, lg) ==
  [status |-> 200, totalEmails |-> total, sentSuccessfully |-> sent,
   failedEmails |-> failed, logs |-> lg]
ErrorResponse(code) ==
  [status |-> code, totalEmails |-> 0, sentSuccessfully |-> 0,
   failedEmails |-> <<>>, logs |-> <<>>]
NoResponse == ErrorResponse(0)

\* ------------------------------------------------------------------ Init
NoRequest == [n |-> 0, m |-> 0, content |-> FALSE]

InitProcess ==
  /\ variant \in Variants
  /\ cap \in 1..MaxCap
  /\ retries \in 1..MaxRetries
  /\ variant \in {"seq", "par", "parLogs", "delay"} => retries = 1
  /\ variant \in {"batch", "par", "parLogs", "delay"} => cap = MaxCap
  /\ smtpCredentials = <<>>
  /\ smtpUsageCount = <<>>
  /\ currentSmtpIndex = 0
  /\ emails = <<>>
  /\ pc = "idle"
  /\ cur = 1
  /\ smtp = NoUser
  /\ examined = 0
  /\ msgs = <<>>
  /\ successCount = 0
  /\ failedEmails = <<>>
  /\ logs = <<>>
  /\ reservoir = reservoirRefreshAmount
  /\ inFlight = 0
  /\ req = NoRequest
  /\ created = <<>>
  /\ res = NoResponse

\* the locals of a handler that has not been called
IdleLocals ==
  [emails |-> <<>>, pc |-> "idle", cur |-> 1, smtp |-> NoUser, examined |-> 0,
   msgs |-> <<>>, successCount |-> 0, failedEmails |-> <<>>, logs |-> <<>>,
   req |-> NoRequest, created |-> <<>>, res |-> NoResponse]
\* no second handler
NoHandler == [IdleLocals EXCEPT !.pc = "none"]

\* a process that serves one request
Init == InitProcess /\ jobsLeft = 1 /\ other = NoHandler

\* a process that serves up to MaxJobs requests, one after another
InitJobs == InitProcess /\ jobsLeft = MaxJobs /\ other = NoHandler

\* a process running part_001 or part_002 that is sent two requests, the
\* second of which may arrive while the first awaits a send
InitOverlap ==
  /\ InitProcess
  /\ variant \in {"seq", "seqRetry"}
  /\ retries <= MaxOverlapRetries
  /\ jobsLeft = 2
  /\ other = IdleLocals

\* ------------------------------------------------------------ the handler
Pooled == variant \in {"seq", "seqRetry", "batch"}
Sequential == variant \in {"seq", "seqRetry"}
Delayed == variant = "delay"
Limited == variant \in {"seqRetry", "batch"}
Parallel == variant \in {"par", "parLogs"}

\* smtp_credentials.forEach((cred) => { smtpUsageCount[cred.user] = 0; })
ResetUsage(pool) == [j \in {pool[x] : x \in 1..Len(pool)} |-> 0]

\* for (let i = 0; i < emails.length; i += BATCH_SIZE)
\*   batches.push(emails.slice(i, i + BATCH_SIZE)...)
\* as the input positions (1-based) each batch holds
SliceEnd(i, len) == IF i + BATCH_SIZE < len THEN i + BATCH_SIZE ELSE len
RECURSIVE Batches(_, _)
Batches(i, len) ==
  IF i >= len THEN <<>>
  ELSE <<[p \in 1..(SliceEnd(i, len) - i) |-> i + p]>> \o Batches(i + BATCH_SIZE, len)

\* batches.map((batch, index) => processBatch(batch, smtp_credentials[index % length]))
BatchOf(j) == (j - 1) \div BATCH_SIZE
BatchAccountFirst(pool, j) == pool[1]
BatchAccount(pool, j) == pool[(BatchOf(j) % Len(pool)) + 1]

\* processBatch: const transporter = createTransporter(smtp), once per batch
BatchTransporters(pool, m) ==
  [u \in {pool[x] : x \in 1..Len(pool)} |->
     Cardinality({b \in 0..(Len(Batches(0, m)) - 1) :
                    pool[(b % Len(pool)) + 1] = u})]

\* for (let i = 0; ...) { const result = await sendEmailWithDelay(...) }: the
\* first pass of the loop starts its send, the later ones wait for the await
LoopStartAll(j) == "running"
LoopStart(j) == IF j > 1 THEN "new" ELSE "running"

\* the input checks at the head of each handler
ValidJob(v, n, m, content) ==
  IF v \in {"par", "parLogs", "delay"}
  THEN content
  ELSE n > 0 /\ m > 0 /\ content

\* the longest recipient list tried: the long lists go to the handlers that
\* send one message at a time with a single attempt each, and the budgets
\* of more than two attempts to lists one shorter than the rest
EmailsBound ==
  IF other.pc # "none" THEN MaxOverlapEmails
  ELSE IF variant \in {"seq", "seqRetry"} /\ retries = 1 THEN MaxSeqEmails
  ELSE IF retries > 2 THEN MaxEmails - 1
  ELSE MaxEmails

\* app.post(...): the request arrives with n accounts, m recipients and
\* (content) a subject plus a text or html body; the handler runs to its
\* first suspension point.
Request(n, m, content) ==
  /\ pc \in {"idle", "done"}
  /\ jobsLeft > 0
  /\ jobsLeft' = jobsLeft - 1
  /\ m <= EmailsBound
  /\ req' = [n |-> n, m |-> m, content |-> content]
  /\ cur' = 1
  /\ smtp' = NoUser
  /\ examined' = 0
  /\ successCount' = 0
  /\ failedEmails' = <<>>
  /\ logs' = <<>>
  /\ IF ~ValidJob(variant, n, m, content)
     THEN /\ res' = ErrorResponse(400)
          /\ pc' = "done"
          /\ emails' = <<>>
          /\ msgs' = <<>>
          /\ created' = <<>>
          /\ UNCHANGED <<smtpCredentials, smtpUsageCount>>
     ELSE /\ emails' = EmailList(m)
          /\ res' = IF Delayed /\ m = 0 THEN Completed(0, 0, <<>>, <<>>)
                    ELSE NoResponse
          /\ IF Pooled
             THEN /\ smtpCredentials' = Pool(n)
                  /\ smtpUsageCount' = ResetUsage(Pool(n))
             ELSE UNCHANGED <<smtpCredentials, smtpUsageCount>>
          /\ created' = IF variant = "batch" THEN BatchTransporters(Pool(n), m)
                        ELSE IF Pooled THEN ResetUsage(Pool(n))
                        ELSE <<>>
          /\ pc' = IF Sequential THEN "select"
                   ELSE IF Delayed /\ m = 0 THEN "done" ELSE "sending"
          /\ msgs' = [j \in 1..m |->
                       IF Sequential THEN NewMsg(Recipient(j))
                       ELSE IF variant = "batch"
                       THEN [NewMsg(Recipient(j)) EXCEPT
                               !.st = "queued", !.smtp = BatchAccount(Pool(n), j)]
                       ELSE IF Delayed
                       THEN [NewMsg(Recipient(j)) EXCEPT !.st = LoopStart(j)]
                       ELSE [NewMsg(Recipient(j)) EXCEPT !.st = "running"]]
  /\ UNCHANGED <<config, currentSmtpIndex, reservoir, inFlight, other>>

\* getNextTransporter: one pass of its while (true) loop
GetNextTransporter ==
  /\ pc = "select"
  /\ IF Len(smtpCredentials) = 0
     THEN /\ res' = ErrorResponse(500)
          /\ pc' = "done"
          /\ UNCHANGED <<currentSmtpIndex, smtp, examined, msgs, created>>
     ELSE LET idx == NextIndex(currentSmtpIndex, Len(smtpCredentials))
              user == smtpCredentials[idx + 1]
          IN /\ currentSmtpIndex' = idx
             /\ examined' = CountPass(examined, Len(smtpCredentials))
             /\ res' = res
             /\ IF Eligible(smtpUsageCount[user], cap)
                THEN /\ smtp' = user
                     /\ msgs' = [msgs EXCEPT ![cur].smtp = user,
                                   ![cur].st = IF Limited THEN "queued" ELSE "running"]
                     /\ created' = IF user \in DOMAIN created
                                   THEN [created EXCEPT ![user] = @ + 1]
                                   ELSE created @@ (user :> 1)
                     /\ pc' = "sending"
                ELSE UNCHANGED <<smtp, msgs, pc, created>>
  /\ UNCHANGED <<config, smtpCredentials, smtpUsageCount, emails, cur,
                 successCount, failedEmails, logs, reservoir, inFlight, req,
                 jobsLeft, other>>

Running == {j \in 1..Len(msgs) : msgs[j].st = "running"}

\* the limiter starts a send while fewer than maxConcurrent are running
CanStart(running, limit) == running < limit

\* the limiter counts a send out when the wrapped function settles
ReleaseOnSuccessOnly(running, m) ==
  IF m.st = "done" /\ m.result.success THEN running - 1 ELSE running
Release(running, m) == IF m.st = "done" THEN running - 1 ELSE running

\* limiter.wrap(...): the limiter starts the oldest queued send once fewer
\* than maxConcurrent are running
Admit(k) ==
  /\ pc = "sending"
  /\ Limited
  /\ k \in 1..Len(msgs)
  /\ msgs[k].st = "queued"
  /\ \A j \in 1..(k - 1) : msgs[j].st # "queued"
  /\ CanStart(inFlight, maxConcurrent)
  /\ variant = "batch" => reservoir > 0
  /\ reservoir' = IF variant = "batch" THEN reservoir - 1 ELSE reservoir
  /\ inFlight' = inFlight + 1
  /\ msgs' = [msgs EXCEPT ![k].st = "running"]
  /\ UNCHANGED <<config, smtpCredentials, smtpUsageCount, currentSmtpIndex,
                 emails, pc, cur, smtp, examined, successCount, failedEmails,
                 logs, req, created, jobsLeft, other, res>>

\* reservoirRefreshAmount: what a refresh sets the reservoir to
RefillNothing(r) == r
Refill(r) == reservoirRefreshAmount

\* reservoirRefreshInterval: the limiter's timer refills the reservoir
ReservoirRefresh ==
  /\ variant = "batch"
  /\ reservoir < reservoirRefreshAmount
  /\ reservoir' = Refill(reservoir)
  /\ UNCHANGED <<config, smtpCredentials, smtpUsageCount, currentSmtpIndex,
                 emails, pc, cur, smtp, examined, msgs, successCount,
                 failedEmails, logs, inFlight, req, created, jobsLeft, other, res>>

\* smtpUsageCount[smtp.user]++: a key the object does not hold reads as
\* undefined, and undefined++ stores NaN; NaN++ is NaN
Increment(usage, user) ==
  IF user \in DOMAIN usage
  THEN [usage EXCEPT ![user] = IF @ = NaN THEN NaN ELSE @ + 1]
  ELSE usage @@ (user :> NaN)

\* the bookkeeping of one outcome in the sequential handlers
RecordFailureDropped(result, user, st) ==
  [st EXCEPT !.logs = Append(@, FailedLog(result.email, result.error))]
RecordFailure(result, user, st) ==
  [st EXCEPT !.failedEmails = Append(@, result.email),
             !.logs = Append(@, FailedLog(result.email, result.error))]
RecordSuccess(result, user, st) ==
  [st EXCEPT !.successCount = @ + 1,
             !.usage = Increment(@, user),
             !.logs = Append(@, SentLog(result.email, user))]
Record(result, user, st) ==
  IF result.success THEN RecordSuccess(result, user, st)
  ELSE RecordFailure(result, user, st)

Tally == [successCount |-> successCount, failedEmails |-> failedEmails,
          logs |-> logs, usage |-> smtpUsageCount]

\* the for-of loop moves on: the next selection, or the response
LoopNext(t) ==
  /\ cur' = cur + 1
  /\ examined' = 0
  /\ IF cur + 1 > Len(emails)
     THEN /\ pc' = "done"
          /\ res' = Completed(Len(emails), t.successCount, t.failedEmails, t.logs)
     ELSE /\ pc' = "select"
          /\ res' = res

\* results.filter((r) => r.status === "sent"), ... === "failed").map((r) => r.email)
Sent(m) == m.result.ret = "value" /\ m.result.success
Failed(m) == m.result.ret = "value" /\ ~m.result.success
EmailsOf(ms) == [j \in 1..Len(ms) |-> ms[j].result.email]

\* emails.map(async (email) => {...}): each callback keeps its own email
CapturedLast(ems, k) == ems[Len(ems)]
Captured(ems, k) == ems[k]

\* transporter.sendMail settles for message k with outcome, and the code
\* awaiting it runs to its next suspension point
SendMail(k, outcome) ==
  /\ pc = "sending"
  /\ k \in 1..Len(msgs)
  /\ msgs[k].st = "running"
  /\ LET m == IF variant \in {"seqRetry", "batch"}
              THEN SendWithRetryStep(variant, msgs[k], outcome, retries)
              ELSE [msgs[k] EXCEPT !.st = "done", !.attempts = @ + 1,
                      !.fails = IF outcome = "ok" THEN 0 ELSE 1,
                      !.thrown = IF outcome = "ok" THEN NoError ELSE outcome,
                      !.result = IF outcome = "ok" THEN SuccessResult(msgs[k].email)
                                 ELSE FailureResult(msgs[k].email, outcome)]
     IN /\ msgs' = IF Delayed /\ k < Len(msgs)
                   THEN [msgs EXCEPT ![k] = m, ![k + 1].st = "running"]
                   ELSE [msgs EXCEPT ![k] = m]
        /\ IF Sequential /\ m.st = "done"
           THEN IF m.result.ret = "undefined"
                THEN /\ res' = ErrorResponse(500)
                     /\ pc' = "done"
                     /\ UNCHANGED <<cur, examined, successCount, failedEmails,
                                    logs, smtpUsageCount>>
                ELSE LET t == Record(m.result, smtp, Tally)
                     IN /\ successCount' = t.successCount
                        /\ failedEmails' = t.failedEmails
                        /\ logs' = t.logs
                        /\ smtpUsageCount' = t.usage
                        /\ LoopNext(t)
           ELSE IF Delayed
           THEN /\ logs' = Append(logs, IF m.result.success
                                        THEN SentLog(m.email, NoUser)
                                        ELSE FailedLog(m.email, m.result.error))
                /\ cur' = cur + 1
                /\ IF cur + 1 > Len(emails)
                   THEN /\ pc' = "done"
                        /\ res' = Completed(Len(emails),
                                            Len(SelectSeq(msgs', Sent)),
                                            EmailsOf(SelectSeq(msgs', Failed)),
                                            logs')
                   ELSE /\ pc' = pc
                        /\ res' = res
                /\ UNCHANGED <<examined, successCount, failedEmails, smtpUsageCount>>
           ELSE IF Parallel
           THEN /\ successCount' = IF m.result.success THEN successCount + 1
                                   ELSE successCount
                /\ failedEmails' = IF m.result.success THEN failedEmails
                                   ELSE Append(failedEmails, Captured(emails, k))
                /\ logs' = IF variant = "par" THEN logs
                           ELSE IF m.result.success
                           THEN Append(logs, SentLog(Captured(emails, k), NoUser))
                           ELSE Append(logs, FailedLog(Captured(emails, k),
                                                       m.result.error))
                /\ UNCHANGED <<cur, examined, smtpUsageCount, pc, res>>
           ELSE UNCHANGED <<cur, examined, successCount, failedEmails, logs,
                            smtpUsageCount, pc, res>>
        /\ inFlight' = IF Limited THEN Release(inFlight, m) ELSE inFlight
  /\ UNCHANGED <<config, smtpCredentials, currentSmtpIndex, emails, smtp,
                 reservoir, req, created, jobsLeft, other>>

\* batchResults.flat().forEach(result => {...}) over results j..Len(ms)
RECURSIVE Aggregate(_, _, _)
RECURSIVE Times(_, _, _)
Times(seq, x, n) == IF n <= 0 THEN seq ELSE Times(Append(seq, x), x, n - 1)
AggregatePerAttempt(ms, j, t) ==
  IF j > Len(ms) THEN t
  ELSE Aggregate(ms, j + 1,
         IF ms[j].result.success
         THEN [t EXCEPT !.successCount = @ + 1,
                        !.logs = Append(@, SentLog(ms[j].result.email, NoUser))]
         ELSE [t EXCEPT !.failedEmails = Times(@, ms[j].result.email, ms[j].attempts),
                        !.logs = Append(@, FailedLog(ms[j].result.email,
                                                     ms[j].result.error))])
Aggregate(ms, j, t) ==
  IF j > Len(ms) THEN t
  ELSE Aggregate(ms, j + 1,
         IF ms[j].result.success
         THEN [t EXCEPT !.successCount = @ + 1,
                        !.logs = Append(@, SentLog(ms[j].result.email, NoUser))]
         ELSE [t EXCEPT !.failedEmails = Append(@, ms[j].result.email),
                        !.logs = Append(@, FailedLog(ms[j].result.email,
                                                     ms[j].result.error))])

\* await Promise.all(...) resumes once every send has settled
PromiseAllResolved ==
  /\ pc = "sending"
  /\ ~Sequential /\ ~Delayed
  /\ \A j \in 1..Len(msgs) : msgs[j].st = "done"
  /\ pc' = "done"
  /\ IF variant = "batch"
     THEN IF \E j \in 1..Len(msgs) : msgs[j].result.ret = "undefined"
          THEN /\ res' = ErrorResponse(500)
               /\ UNCHANGED <<successCount, failedEmails, logs>>
          ELSE LET t == Aggregate(msgs, 1, Tally)
               IN /\ successCount' = t.successCount
                  /\ failedEmails' = t.failedEmails
                  /\ logs' = t.logs
                  /\ res' = Completed(Len(emails), t.successCount,
                                      t.failedEmails, t.logs)
     ELSE /\ res' = Completed(Len(emails), successCount, failedEmails, logs)
          /\ UNCHANGED <<successCount, failedEmails, logs>>
  /\ UNCHANGED <<config, smtpCredentials, smtpUsageCount, currentSmtpIndex,
                 emails, cur, smtp, examined, msgs, reservoir, inFlight, req,
                 created, jobsLeft, other>>

\* the locals of the handler whose steps are being taken
Locals ==
  [emails |-> emails, pc |-> pc, cur |-> cur, smtp |-> smtp,
   examined |-> examined, msgs |-> msgs, successCount |-> successCount,
   failedEmails |-> failedEmails, logs |-> logs, req |-> req,
   created |-> created, res |-> res]

\* the event loop turns to the other handler: the one it leaves is not
\* inside synchronous code (getNextTransporter runs to its return without
\* an await), so it is idle, awaiting its send, or finished
Switch ==
  /\ other.pc # "none"
  /\ pc \in {"idle", "sending", "done"}
  /\ other' = Locals
  /\ emails' = other.emails
  /\ pc' = other.pc
  /\ cur' = other.cur
  /\ smtp' = other.smtp
  /\ examined' = other.examined
  /\ msgs' = other.msgs
  /\ successCount' = other.successCount
  /\ failedEmails' = other.failedEmails
  /\ logs' = other.logs
  /\ req' = other.req
  /\ created' = other.created
  /\ res' = other.res
  /\ UNCHANGED <<config, smtpCredentials, smtpUsageCount, currentSmtpIndex,
                 reservoir, inFlight, jobsLeft>>

Next ==
  \/ \E n \in 0..MaxPool, m \in 0..MaxSeqEmails, content \in BOOLEAN :
       Request(n, m, content)
  \/ GetNextTransporter
  \/ \E k \in 1..MaxSeqEmails : Admit(k)
  \/ ReservoirRefresh
  \/ \E k \in 1..MaxSeqEmails, outcome \in {"ok"} \cup Errors : SendMail(k, outcome)
  \/ PromiseAllResolved

Spec == Init /\ [][Next]_vars

\* Every step is a callback of the event loop or a pass of a running loop:
\* once enabled it runs.
FairSpec == Spec /\ WF_vars(Next)

\* the same process serving several requests in turn
SpecJobs == InitJobs /\ [][Next]_vars

\* two requests to a server that sends one message at a time
NextOverlap ==
  \/ \E n \in 0..MaxPool, m \in 0..MaxOverlapEmails, content \in BOOLEAN :
       Request(n, m, content)
  \/ GetNextTransporter
  \/ \E k \in 1..MaxOverlapEmails : Admit(k)
  \/ \E k \in 1..MaxOverlapEmails, outcome \in {"ok"} \cup Errors : SendMail(k, outcome)
  \/ Switch

SpecOverlap == InitOverlap /\ [][NextOverlap]_vars

\* ------------------------------------------------------------ properties
Msgs == 1..Len(msgs)
Retrying == variant \in {"seqRetry", "batch"}
Succeeded(j) == msgs[j].result.ret = "value" /\ msgs[j].result.success
FailedMsg(j) == msgs[j].result.ret = "value" /\ ~msgs[j].result.success
Done == {j \in Msgs : msgs[j].st = "done"}

RECURSIVE Sum(_)
Sum(seq) == IF seq = <<>> THEN 0 ELSE Head(seq) + Sum(Tail(seq))

\* the first number of the variant's backoff schedule
BackoffBase == IF variant = "seqRetry" THEN 1000 ELSE 200

\* C1: a reported result accounts for every recipient of the request:
\* sentSuccessfully + length(failedEmails) = totalEmails = number of recipients.
C1_TotalsAddUp ==
  res.status = 200 =>
    /\ res.totalEmails = Len(emails)
    /\ res.sentSuccessfully + Len(res.failedEmails) = res.totalEmails

\* a batched job reported with both a sent and a failed message
C1_Witness ==
  /\ variant = "batch"
  /\ res.status = 200
  /\ res.sentSuccessfully > 0
  /\ Len(res.failedEmails) > 0

\* C2: no usage counter of the pool is ever above the cap.
C2_UsageWithinCap ==
  \A u \in DOMAIN smtpUsageCount : smtpUsageCount[u] <= cap

\* mid-job, an account stands at the cap and a selection has stepped past it
C2_Witness ==
  /\ pc = "sending"
  /\ examined = 2
  /\ \E u \in DOMAIN smtpUsageCount : smtpUsageCount[u] = cap /\ u # smtp

\* C3: one account selection tests at most pool-size accounts.
C3_SelectionWithinOneCycle ==
  Sequential => examined <= Len(smtpCredentials)

\* Scenario B after its first message: one account capped at 1, three
\* messages, the first sent.
ScenarioBUnderWay ==
  /\ Sequential
  /\ Len(smtpCredentials) = 1
  /\ cap = 1
  /\ Len(emails) = 3
  /\ pc = "select"
  /\ cur = 2
  /\ successCount = 1

\* C4: scenario B ends in a result with 1 success, 2 failed recipients and
\* 3 log lines.
C4_ExhaustedPoolStillReports ==
  ScenarioBUnderWay ~>
    (/\ res.status = 200
     /\ res.sentSuccessfully = 1
     /\ Len(res.failedEmails) = 2
     /\ Len(res.logs) = 3)

\* C5: every accepted job ends in the completed result covering all of its
\* messages.
C5_JobCompletes ==
  (pc \in {"select", "sending"}) ~>
    (res.status = 200 /\ res.totalEmails = Len(emails))

\* C6: every message has exactly one outcome and one log line, however many
\* attempts it took: while the handler counts as it goes the recorded
\* outcomes are those of the finished messages, and the result holds one
\* unit per message.
C6_OneOutcomePerMessage ==
  /\ (variant # "batch" /\ ~Delayed /\ pc # "idle") =>
       /\ successCount = Cardinality({j \in Msgs : Succeeded(j)})
       /\ Len(failedEmails) = Cardinality({j \in Msgs : FailedMsg(j)})
       /\ variant # "par" => Len(logs) = Cardinality(Done)
  /\ res.status = 200 =>
       /\ res.sentSuccessfully = Cardinality({j \in Msgs : Succeeded(j)})
       /\ Len(res.failedEmails) = Cardinality({j \in Msgs : FailedMsg(j)})
       /\ Cardinality(Done) = Len(emails)
       /\ variant # "par" => Len(res.logs) = Len(emails)

\* a batched job reported with a message that failed three attempts
C6_Witness ==
  /\ variant = "batch"
  /\ res.status = 200
  /\ Len(res.failedEmails) = 1
  /\ \E j \in Msgs : FailedMsg(j) /\ msgs[j].attempts = 3

\* C7: sendWithRetry makes at most retries attempts, stops at the first
\* success, returns the failure with the last error exactly when retries
\* attempts have failed, and always returns a result.
C7_SendWithRetry ==
  Retrying =>
    \A j \in Msgs :
      LET m == msgs[j] IN
        /\ m.attempts <= retries
        /\ m.result.ret # "undefined"
        /\ m.st = "done" <=> m.result.ret = "value"
        /\ Succeeded(j) => m.attempts = m.fails + 1
        /\ FailedMsg(j) <=> m.fails = retries
        /\ FailedMsg(j) => m.result.error = m.thrown /\ m.thrown \in Errors
        /\ m.st = "running" => m.attempts = m.fails

\* a send that failed twice and then succeeded
C7_Witness ==
  /\ Retrying
  /\ \E j \in Msgs : Succeeded(j) /\ msgs[j].fails = 2 /\ retries > 3

C10_UsageCountsSuccesses ==
  (Pooled /\ res.status = 200) =>
    \A u \in DOMAIN smtpUsageCount :
      smtpUsageCount[u] =
        Cardinality({j \in Msgs : Succeeded(j) /\ msgs[j].smtp = u})

\* ------------------------------------------------- properties, continued
UsageOf(u) == smtpUsageCount[u]
MaxUsage == CHOOSE x \in {UsageOf(u) : u \in DOMAIN smtpUsageCount} :
              \A u \in DOMAIN smtpUsageCount : UsageOf(u) <= x
MinUsage == CHOOSE x \in {UsageOf(u) : u \in DOMAIN smtpUsageCount} :
              \A u \in DOMAIN smtpUsageCount : UsageOf(u) >= x
CeilDiv(a, b) == (a + b - 1) \div b
AllSent == \A j \in Msgs : Succeeded(j)
NoneFailedYet == \A j \in Msgs : msgs[j].fails = 0

\* Scenario A: three accounts capped at 2, five messages, no send fails.
ScenarioA ==
  /\ Sequential
  /\ Len(smtpCredentials) = 3
  /\ cap = 2
  /\ Len(emails) = 5
  /\ NoneFailedYet

\* C11 as stated: in scenario A the rotation starts from account 0, the
\* counters end at 2, 2, 1 and nothing failed.
C11_StartsFromAccount0 ==
  (ScenarioA /\ res.status = 200) =>
    /\ msgs[1].smtp = smtpCredentials[1]
    /\ smtpUsageCount[smtpCredentials[1]] = 2
    /\ smtpUsageCount[smtpCredentials[2]] = 2
    /\ smtpUsageCount[smtpCredentials[3]] = 1
    /\ res.failedEmails = <<>>

\* C11 amended: in scenario A, in a process that has served no job before,
\* the cursor is advanced before it is used, so message j (one-based) goes to
\* the account at index j mod 3: accounts 1, 2, 0, 1, 2; the counters end at
\* account0 = 1, account1 = 2, account2 = 2 and nothing failed.
C11_StartsFromAccount1 ==
  ScenarioA =>
    /\ \A j \in Msgs : msgs[j].smtp # NoUser =>
                         msgs[j].smtp = smtpCredentials[(j % 3) + 1]
    /\ res.status = 200 =>
         /\ smtpUsageCount[smtpCredentials[1]] = 1
         /\ smtpUsageCount[smtpCredentials[2]] = 2
         /\ smtpUsageCount[smtpCredentials[3]] = 2
         /\ res.sentSuccessfully = 5
         /\ res.failedEmails = <<>>

\* scenario A has run to its result
C11_Witness == ScenarioA /\ res.status = 200 /\ AllSent

\* C12: when every send of a job succeeds, the counters of the most and the
\* least used account differ by at most ceil(M / N), and by at most 1 where
\* messages are sent one by one.
C12_RoundRobinFair ==
  (Pooled /\ res.status = 200 /\ AllSent
     /\ Len(emails) <= Len(smtpCredentials) * cap) =>
    /\ MaxUsage - MinUsage <= CeilDiv(Len(emails), Len(smtpCredentials))
    /\ Sequential => MaxUsage - MinUsage <= 1

\* a sequential job over three accounts ends with unequal counters
C12_Witness ==
  /\ Sequential
  /\ res.status = 200
  /\ AllSent
  /\ Len(smtpCredentials) = 3
  /\ MaxUsage = MinUsage + 1

\* C13: a request without a usable pool, without recipients or without
\* content is answered 400 before anything is dispatched, and leaves the
\* pool, the usage counters and the cursor as they were.
InvalidInput == (Pooled /\ req.n = 0) \/ req.m = 0 \/ ~req.content
C13_InvalidInputRejected ==
  (pc = "done" /\ InvalidInput) =>
    /\ res.status = 400
    /\ msgs = <<>>
    /\ smtpCredentials = <<>>
    /\ smtpUsageCount = <<>>
    /\ currentSmtpIndex = 0

\* C14: within one job at most one transporter is created per account.
C14_OneTransporterPerAccount ==
  \A u \in DOMAIN created : created[u] <= 1

\* C15: the one-at-a-time and the batched handler report the same result for
\* the same job and outcomes; the one-at-a-time handler never reports more
\* successes than the pool has capacity for, so neither does the batched one.
C15_ShapesReportAlike ==
  (variant \in {"seqRetry", "batch"} /\ res.status = 200) =>
    res.sentSuccessfully <= Len(smtpCredentials) * cap

\* C16: the sends the limiter has started and not seen settle are exactly
\* the running ones, and never more than maxConcurrent; a send that settles,
\* with success or failure, is counted out.
C16_WithinMaxConcurrent ==
  Limited =>
    /\ inFlight = Cardinality(Running)
    /\ inFlight <= maxConcurrent

\* a send has settled in failure, and the limiter is full again with a send
\* that has already failed an attempt
C16_Witness ==
  /\ variant = "batch"
  /\ inFlight = maxConcurrent
  /\ \E j \in Running : msgs[j].fails > 0
  /\ \E j \in Msgs : FailedMsg(j)

\* C17: a send handed to the limiter is never dropped: it is started and
\* settles, given that sends return and the reservoir is refilled. A settled
\* message stays settled, so this is: from some point on no message of the
\* job is waiting at the limiter or in flight.
C17_QueuedIsSent ==
  <>[](Limited => \A j \in Msgs : msgs[j].st \notin {"queued", "running"})

\* a batched job longer than the reservoir with every send settled
C17_Witness ==
  /\ variant = "batch"
  /\ Len(msgs) > reservoirRefreshAmount
  /\ \A j \in Msgs : msgs[j].st = "done"

\* C18: a job starts from initial values: the pool and the counters are those
\* of its request and the cursor is at 0 when its first selection begins.
C18_JobStartsFresh ==
  (pc = "select" /\ cur = 1 /\ examined = 0) =>
    /\ smtpCredentials = Pool(req.n)
    /\ smtpUsageCount = ResetUsage(smtpCredentials)
    /\ currentSmtpIndex = 0

\* C19: in the handlers that send concurrently every outcome is reported
\* against the recipient it belongs to, in whatever order the sends settle.
Addresses == {emails[j] : j \in 1..Len(emails)}
Count(seq, P(_)) == Cardinality({x \in 1..Len(seq) : P(seq[x])})
C19_OutcomesAttributed ==
  (variant \in {"par", "parLogs", "batch"} /\ res.status = 200) =>
    /\ res.sentSuccessfully = Cardinality({j \in Msgs : Succeeded(j)})
    /\ \A a \in Addresses :
         /\ LET Is(x) == x = a
            IN Count(res.failedEmails, Is) =
                 Cardinality({j \in Msgs : FailedMsg(j) /\ emails[j] = a})
         /\ variant # "par" =>
              /\ LET SentTo(l) == l.ok /\ l.email = a
                 IN Count(res.logs, SentTo) =
                      Cardinality({j \in Msgs : Succeeded(j) /\ emails[j] = a})
              /\ \A e \in Errors :
                   LET FailedWith(l) == ~l.ok /\ l.email = a /\ l.error = e
                   IN Count(res.logs, FailedWith) =
                        Cardinality({j \in Msgs : FailedMsg(j) /\ emails[j] = a
                                                   /\ msgs[j].thrown = e})

\* a parallel job whose second message settled first and failed, while the
\* first was sent
C19_Witness ==
  /\ variant = "parLogs"
  /\ res.status = 200
  /\ Len(emails) = MaxEmails
  /\ res.logs[1].email = emails[2]
  /\ FailedMsg(2)
  /\ Succeeded(1)

\* C20: the batched handler sends no more than the cap through any account.
C20_BatchWithinCap ==
  variant = "batch" =>
    \A u \in DOMAIN smtpUsageCount :
      Cardinality({j \in Msgs : Succeeded(j) /\ msgs[j].smtp = u}) <= cap

\* C22: in the handlers that send one message at a time at most one message
\* is in flight, and it is the one the loop is at: the messages before it
\* have their outcome, recorded together with the usage counter of their
\* account, and those after it have not been started; logs and failed
\* recipients are in input order.
InFlight == {j \in Msgs : msgs[j].st \in {"queued", "running"}}
RECURSIVE FailedInOrder(_)
FailedInOrder(j) ==
  IF j = 0 THEN <<>>
  ELSE IF FailedMsg(j) THEN Append(FailedInOrder(j - 1), emails[j])
  ELSE FailedInOrder(j - 1)
C22_OneAtATime ==
  /\ ((Sequential \/ Delayed) /\ res.status = 200) =>
       /\ res.failedEmails = FailedInOrder(Len(emails))
       /\ \A x \in 1..Len(res.logs) :
            res.logs[x].email = emails[x] /\ res.logs[x].ok = Succeeded(x)
  /\ ((Sequential \/ Delayed) /\ pc \in {"select", "sending"}) =>
    /\ Cardinality(InFlight) <= 1
    /\ \A j \in Msgs :
         /\ j < cur => msgs[j].st = "done"
         /\ j > cur => msgs[j].st = "new" /\ msgs[j].attempts = 0
         /\ (j = cur /\ pc = "sending") => j \in InFlight
    /\ Len(logs) = cur - 1
    /\ \A x \in 1..Len(logs) :
         logs[x].email = emails[x] /\ logs[x].ok = Succeeded(x)
    /\ Sequential =>
         /\ failedEmails = FailedInOrder(cur - 1)
         /\ successCount = Cardinality({j \in Msgs : Succeeded(j)})
         /\ \A u \in DOMAIN smtpUsageCount :
              smtpUsageCount[u] =
                Cardinality({j \in Msgs : Succeeded(j) /\ msgs[j].smtp = u})

\* a rate-limited job about to select for its third message, after a first
\* that failed all its attempts and a second that was sent
C22_Witness ==
  /\ variant = "seqRetry"
  /\ pc = "select"
  /\ cur = 3
  /\ FailedMsg(1) /\ msgs[1].waits # <<>>
  /\ Succeeded(2)

\* C23: the batched handler splits the recipients into consecutive batches of
\* at most BATCH_SIZE that cover every recipient once, sends batch k
\* (zero-based) through account k mod pool size, and lists the messages in
\* the logs of its result in input order, in whatever order the sends settle.
RECURSIVE Flat(_)
Flat(ss) == IF ss = <<>> THEN <<>> ELSE Head(ss) \o Flat(Tail(ss))
JobBatches == Batches(0, Len(emails))
C23_BatchesInOrder ==
  (variant = "batch" /\ Len(emails) > 0) =>
    /\ Flat(JobBatches) = [j \in 1..Len(emails) |-> j]
    /\ \A b \in 1..Len(JobBatches) :
         /\ Len(JobBatches[b]) \in 1..BATCH_SIZE
         /\ \A p \in 1..Len(JobBatches[b]) :
              msgs[JobBatches[b][p]].smtp =
                smtpCredentials[((b - 1) % Len(smtpCredentials)) + 1]
    /\ res.status = 200 =>
         /\ Len(res.logs) = Len(emails)
         /\ \A x \in 1..Len(res.logs) :
              /\ res.logs[x].email = emails[x]
              /\ res.logs[x].ok = Succeeded(x)
              /\ res.logs[x].error = msgs[x].result.error

\* a reported job of two batches on two accounts, the second batch holding
\* the last message alone, with a failed message between two sent ones
C23_Witness ==
  /\ variant = "batch"
  /\ res.status = 200
  /\ Len(smtpCredentials) = 2
  /\ Len(emails) = BATCH_SIZE + 1
  /\ Succeeded(1) /\ FailedMsg(2) /\ Succeeded(Len(emails))

\* C21: with two jobs in progress at once each message goes through an
\* account of its own job's pool, every usage counter is an integer from 0
\* to the cap, and a reported job has sentSuccessfully + length(failedEmails)
\* = totalEmails = its number of recipients.
OwnPool(l) == {Pool(l.req.n)[x] : x \in 1..l.req.n}
C21_JobsKeepApart ==
  /\ \A u \in DOMAIN smtpUsageCount : smtpUsageCount[u] \in 0..cap
  /\ \A l \in {Locals, other} :
       /\ \A j \in 1..Len(l.msgs) :
            l.msgs[j].smtp # NoUser => l.msgs[j].smtp \in OwnPool(l)
       /\ l.res.status = 200 =>
            /\ l.res.totalEmails = Len(l.emails)
            /\ l.res.sentSuccessfully + Len(l.res.failedEmails) = l.res.totalEmails

====
